---------------------------- MODULE Spec2Model ----------------------------
(***************************************************************************)
(* State-machine model of the portfolio page script (src/script.js).       *)
(*                                                                         *)
(* The components of the script are modelled, each with the DOM state it   *)
(* reads and writes:                                                       *)
(*   - ThemeManager: the stored theme, the data-theme attribute, toggle;   *)
(*   - SkillsAnimator: the scroll listener that starts the skill bars, and *)
(*     the debounced resize listener that re-applies their widths;         *)
(*   - NavigationManager: the scroll listener that highlights the          *)
(*     navigation link of the current section;                             *)
(*   - AnimationObserver: the IntersectionObserver that reveals elements;  *)
(*   - ContactFormManager: the submit handler, its simulated submission    *)
(*     timer and the toast.                                                *)
(* The browser is the environment: it scrolls, reports intersections,      *)
(* lets the user type and submit, and lets time pass.                      *)
(***************************************************************************)
EXTENDS Integers, Sequences, FiniteSets, TLC

VARIABLES
    \* ---- NavigationManager ----
    sectionTops,    \* getBoundingClientRect().top of each section[id], document order
    navLinks,       \* the .nav-link elements: [href, active], document order
    current,        \* the handler's local `current` at the end of its last run
    navRuns,        \* runs of the scroll listener so far: 0, 1, or 2 for "twice or more"
    \* ---- AnimationObserver ----
    revealPhase,    \* "loading" until new AnimationObserver() has run, then "ready"
    elements,       \* the reveal candidates, document order: class and inline style
    observed,       \* the targets the IntersectionObserver observes (indices)
    lastEntries,    \* the entries the last intersection callback was called with
    \* ---- ContactFormManager ----
    fields,         \* the values of the form's name, email and message controls
    submitBtn,      \* #submit-btn: disabled, and the display of .btn-text / .btn-loading
    toast,          \* #toast: class 'show', .toast-message and .toast-icon
    timers,         \* pending setTimeout timers in creation order: [kind, age in ms]
    \* ---- SkillsAnimator, debounce and the resize listener ----
    skillsRect,     \* getBoundingClientRect() of #skills, and whether #skills exists
    skillsScrolled, \* the scroll listener of SkillsAnimator has run at least once
    animated,       \* this.animated
    animateCalls,   \* calls of animateSkillBars so far
    bars,           \* the .skill-progress elements: [level (data-level), width (style.width)]
    barTimers,      \* pending timers of animateSkillBars, creation order: [bar, age in ms]
    resizeTimers,   \* pending timers of the debounced resize listener: [args, age, latest]
    lastRunArgs,    \* the arguments of the last run of the debounced function, "" if none
    burst,          \* "idle": wrapper never called; "open": called, not yet run; "ran"
    \* ---- ThemeManager ----
    themePhase,     \* "loading" until new ThemeManager() has run, then "ready"
    storedTheme,    \* localStorage item 'theme': << >> if absent, else <<value>>
    dataTheme,      \* attribute data-theme of the document element, "" if not set
    currentTheme,   \* this.currentTheme, "" before construction
    themeLoads,     \* ThemeManagers constructed so far: 0, 1, or 2 for "two or more"
    toggled         \* toggle() has run since the page was loaded

navVars == <<sectionTops, navLinks, current, navRuns>>

revealVars == <<revealPhase, elements, observed, lastEntries>>

formVars == <<fields, submitBtn, toast, timers>>

skillsVars == <<skillsRect, skillsScrolled, animated, animateCalls, bars,
                barTimers, resizeTimers, lastRunArgs, burst>>

themeVars == <<themePhase, storedTheme, dataTheme, currentTheme, themeLoads, toggled>>

vars == <<sectionTops, navLinks, current, navRuns,
          revealPhase, elements, observed, lastEntries,
          fields, submitBtn, toast, timers,
          skillsRect, skillsScrolled, animated, animateCalls, bars,
          barTimers, resizeTimers, lastRunArgs, burst,
          themePhase, storedTheme, dataTheme, currentTheme, themeLoads, toggled>>

---------------------------------------------------------------------------
(* Bounds of the model *)

MaxSections == 4
MaxLinks == 2
MaxElements == 3
MaxBatch == 2
MaxTimers == 3

(* Sequences over S of length at most n *)
SeqsUpTo(S, n) == UNION {[1..k -> S] : k \in 0..n}

---------------------------------------------------------------------------
(* NavigationManager (src/script.js:33-80) *)

\* the threshold of `sectionTop <= 150`
NavThreshold == 150

\* ids of the page's section[id] elements in document order; ids are unique
\* and non-empty in a valid document
PageSectionIds == <<"home", "about", "skills", "contact", "blog", "faq">>

SectionId(i) == PageSectionIds[i]

\* top offsets a section is laid out at when the page loads; scrolling
\* reaches further ones, among them the threshold itself (200 - 50)
TopValues == {-10, 50, 100, 200}

\* href attributes of navigation links: "#" targets no section
LinkHrefs == {"#", "#home", "#contact"}

\* the viewport scrolls by one of these amounts (0: the event fires with the
\* layout unchanged, e.g. a horizontal scroll)
ScrollDeltas == {-50, 0, 50}

MinTop == CHOOSE t \in TopValues : \A u \in TopValues : t <= u
MaxTop == CHOOSE t \in TopValues : \A u \in TopValues : t >= u

\* sections.forEach(section => { if (sectionTop <= 150) current = id })
RECURSIVE CurrentAfterFirstMatch(_, _)
CurrentAfterFirstMatch(tops, k) ==
    IF k = 0 THEN ""
    ELSE LET prev == CurrentAfterFirstMatch(tops, k - 1)
         IN IF prev # "" THEN prev
            ELSE IF tops[k] <= NavThreshold THEN SectionId(k) ELSE prev

RECURSIVE CurrentAfter(_, _)
CurrentAfter(tops, k) ==
    IF k = 0 THEN ""
    ELSE LET prev == CurrentAfter(tops, k - 1)
         IN IF tops[k] <= NavThreshold THEN SectionId(k) ELSE prev

ResolveCurrentFirstMatch(tops) == CurrentAfterFirstMatch(tops, Len(tops))

ResolveCurrent(tops) == CurrentAfter(tops, Len(tops))

\* link.getAttribute('href') === `#${current}`
HrefMatches(href, cur) == href = "#" \o cur

\* link.classList.remove('active'); if (match) link.classList.add('active')
MarkLinkNoRemove(link, cur) ==
    [link EXCEPT !.active = link.active \/ HrefMatches(link.href, cur)]

MarkLinkToggle(link, cur) ==
    [link EXCEPT !.active = IF HrefMatches(link.href, cur)
                            THEN ~link.active ELSE link.active]

MarkLink(link, cur) ==
    [link EXCEPT !.active = HrefMatches(link.href, cur)]

\* navLinks.forEach(link => ...)
NavLinksAfterSkipEmpty(links, cur) ==
    IF cur = "" THEN links
    ELSE [i \in 1..Len(links) |-> MarkLink(links[i], cur)]

NavLinksAfter(links, cur) ==
    [i \in 1..Len(links) |-> MarkLink(links[i], cur)]

NavInit ==
    /\ sectionTops \in SeqsUpTo(TopValues, MaxSections)
    /\ navLinks \in SeqsUpTo([href : LinkHrefs, active : BOOLEAN], MaxLinks)
    /\ current = ""
    /\ navRuns = 0

\* ScrollEventRevealing: a scroll listener that also reveals the reveal
\* candidates
ScrollEventRevealing(delta) ==
    LET tops == [i \in 1..Len(sectionTops) |-> sectionTops[i] - delta]
        cur  == ResolveCurrent(tops)
    IN /\ \A i \in 1..Len(tops) : tops[i] >= MinTop /\ tops[i] <= MaxTop
       /\ sectionTops' = tops
       /\ current' = cur
       /\ navLinks' = NavLinksAfter(navLinks, cur)
       /\ navRuns' = IF navRuns = 0 THEN 1 ELSE 2
       /\ elements' = [i \in 1..Len(elements) |-> [elements[i] EXCEPT !.animateIn = TRUE]]
       /\ UNCHANGED <<revealPhase, observed, lastEntries>>
       /\ UNCHANGED <<formVars, skillsVars, themeVars>>

\* The viewport scrolls by delta and the window's scroll event is dispatched
\* to the listener registered by updateActiveNavigation.
ScrollEvent(delta) ==
    LET tops == [i \in 1..Len(sectionTops) |-> sectionTops[i] - delta]
        cur  == ResolveCurrent(tops)
    IN /\ \A i \in 1..Len(tops) : tops[i] >= MinTop /\ tops[i] <= MaxTop
       /\ sectionTops' = tops
       /\ current' = cur
       /\ navLinks' = NavLinksAfter(navLinks, cur)
       /\ navRuns' = IF navRuns = 0 THEN 1 ELSE 2
       /\ UNCHANGED <<revealVars, formVars, skillsVars, themeVars>>

NavNext == \E delta \in ScrollDeltas : ScrollEvent(delta)

---------------------------------------------------------------------------
(* AnimationObserver (src/script.js:247-285) and animationCSS (391-396) *)

\* `${index * 0.1}s`: the stagger per index, in milliseconds
StaggerMs == 100

\* `all 0.6s ease ...`: the transition's duration, in milliseconds
TransitionMs == 600

\* an element as the markup gives it: no class, no inline style (the initial
\* value of the transition property is 0s, delay 0s)
FreshElement ==
    [animateIn |-> FALSE, opacity |-> "", transform |-> "",
     transition |-> [duration |-> 0, delay |-> 0]]

\* observeElements, for the element at 0-based `index`:
\*   el.style.opacity = '0'; el.style.transform = 'translateY(50px)';
\*   el.style.transition = `all 0.6s ease ${index * 0.1}s`
PreparedOneBased(el, index) ==
    [el EXCEPT !.opacity = "0", !.transform = "translateY(50px)",
               !.transition = [duration |-> TransitionMs,
                               delay |-> (index + 1) * StaggerMs]]

Prepared(el, index) ==
    [el EXCEPT !.opacity = "0", !.transform = "translateY(50px)",
               !.transition = [duration |-> TransitionMs,
                               delay |-> index * StaggerMs]]

\* the cascade: .animate-in { opacity: 1 !important } overrides the inline
\* opacity; without the class the inline value applies, or the natural 1
ComputedOpacity(el) ==
    IF el.animateIn THEN 1 ELSE IF el.opacity = "0" THEN 0 ELSE 1

\* the body of entries.forEach, on the pair st = [els, obs]:
\*   if (entry.isIntersecting) { classList.add('animate-in'); unobserve(target) }
HandleEntryReversing(st, entry) ==
    IF entry.isIntersecting
    THEN [els |-> [st.els EXCEPT ![entry.target].animateIn = TRUE],
          obs |-> st.obs \ {entry.target}]
    ELSE [els |-> [st.els EXCEPT ![entry.target].animateIn = FALSE],
          obs |-> st.obs]

HandleEntryNoUnobserve(st, entry) ==
    IF entry.isIntersecting
    THEN [els |-> [st.els EXCEPT ![entry.target].animateIn = TRUE],
          obs |-> st.obs]
    ELSE st

HandleEntryUnobserveAlways(st, entry) ==
    [els |-> IF entry.isIntersecting
             THEN [st.els EXCEPT ![entry.target].animateIn = TRUE]
             ELSE st.els,
     obs |-> st.obs \ {entry.target}]

HandleEntry(st, entry) ==
    IF entry.isIntersecting
    THEN [els |-> [st.els EXCEPT ![entry.target].animateIn = TRUE],
          obs |-> st.obs \ {entry.target}]
    ELSE st

\* HandleEntriesFirstOnly handles entries[0] only
HandleEntriesFirstOnly(st, entries, k) ==
    IF k = 0 THEN st ELSE HandleEntry(st, entries[1])

\* entries.forEach(...), in the order of the entries
RECURSIVE HandleEntries(_, _, _)
HandleEntries(st, entries, k) ==
    IF k = 0 THEN st
    ELSE HandleEntry(HandleEntries(st, entries, k - 1), entries[k])

RevealInit ==
    /\ revealPhase = "loading"
    /\ elements \in {[i \in 1..n |-> FreshElement] : n \in 0..MaxElements}
    /\ observed = {}
    /\ lastEntries = << >>

\* a page without reveal candidates, left alone
RevealIdle ==
    /\ revealPhase = "loading"
    /\ elements = << >>
    /\ observed = {}
    /\ lastEntries = << >>

\* DOMContentLoaded: new AnimationObserver() runs createObserver and
\* observeElements
ObserveElements ==
    /\ revealPhase = "loading"
    /\ revealPhase' = "ready"
    /\ elements' = [i \in 1..Len(elements) |-> Prepared(elements[i], i - 1)]
    /\ observed' = 1..Len(elements)
    /\ UNCHANGED lastEntries
    /\ UNCHANGED <<navVars, formVars, skillsVars, themeVars>>

\* the entries a callback can be called with: any targets, also ones no
\* longer observed, zero to MaxBatch of them
EntryBatches ==
    SeqsUpTo([target : 1..Len(elements), isIntersecting : BOOLEAN], MaxBatch)

\* the IntersectionObserver calls the callback of createObserver
IntersectionCallback(entries) ==
    LET st == HandleEntries([els |-> elements, obs |-> observed],
                            entries, Len(entries))
    IN /\ revealPhase = "ready"
       /\ elements' = st.els
       /\ observed' = st.obs
       /\ lastEntries' = entries
       /\ UNCHANGED revealPhase
       /\ UNCHANGED <<navVars, formVars, skillsVars, themeVars>>

RevealNext ==
    \/ ObserveElements
    \/ \E entries \in EntryBatches : IntersectionCallback(entries)

---------------------------------------------------------------------------
(* ContactFormManager (src/script.js:127-213) *)

\* setTimeout(..., 2000) of submitForm
SubmitDelayMs == 2000

\* setTimeout(..., 5000) of showToast
ToastMs == 5000

FieldNames == {"name", "email", "message"}

\* what the user can type into a control
FieldValues == {"", "Ana"}

\* time passes in steps of these many milliseconds
TickSteps == {1000}

\* the texts of the three toasts (abbreviated) and the two icons
MsgIncomplete == "Por favor, completa todos los campos."
MsgSent == "Mensaje enviado! Gracias por contactarme."
MsgFailed == "Error al enviar el mensaje."

\* if (!name || !email || !message): a control's value is a string, and
\* only the empty string is falsy
IsIncompleteAllEmpty(f) == f.name = "" /\ f.email = "" /\ f.message = ""

IsIncomplete(f) == f.name = "" \/ f.email = "" \/ f.message = ""

\* LoadingStateKeepsDisabled restores the labels but leaves the button
\* disabled
LoadingStateKeepsDisabled(loading) ==
    IF loading
    THEN [btnText |-> "none", btnLoading |-> "inline", disabled |-> TRUE]
    ELSE [btnText |-> "inline", btnLoading |-> "none", disabled |-> TRUE]

\* setLoadingState(loading)
LoadingState(loading) ==
    IF loading
    THEN [btnText |-> "none", btnLoading |-> "inline", disabled |-> TRUE]
    ELSE [btnText |-> "inline", btnLoading |-> "none", disabled |-> FALSE]

\* showToast(message, type): the toast's element after the call
ToastShown(message, type) ==
    [show |-> TRUE, message |-> message,
     icon |-> IF type = "success" THEN "check" ELSE "cross"]

\* this.form.reset(): the controls return to their default values, which
\* are empty (the form's controls carry no value attribute)
FormResetKeeps(f) == f

FormReset(f) == [name |-> "", email |-> "", message |-> ""]

\* how the promise of submitForm can settle: its executor only ever calls
\* resolve, from the timer
SubmitFormOutcomesMayReject == {"resolved", "rejected"}

SubmitFormOutcomes == {"resolved"}

\* the delay a timer was set with
TimerDelay(kind) == IF kind = "submit" THEN SubmitDelayMs ELSE ToastMs

IsDue(t) == t.age = TimerDelay(t.kind)

\* timers without the i-th
WithoutTimer(i) == [k \in 1..(Len(timers) - 1) |-> IF k < i THEN timers[k] ELSE timers[k + 1]]

\* the browser runs due timers in the order of their creation
FiresNext(i) ==
    /\ i \in 1..Len(timers)
    /\ IsDue(timers[i])
    /\ \A j \in 1..(i - 1) : ~IsDue(timers[j])

FormInit ==
    /\ fields = [name |-> "", email |-> "", message |-> ""]
    /\ submitBtn = [btnText |-> "", btnLoading |-> "", disabled |-> FALSE]
    /\ toast = [show |-> FALSE, message |-> "", icon |-> ""]
    /\ timers = << >>

\* the user edits a control
Input(f, v) ==
    /\ fields[f] # v
    /\ fields' = [fields EXCEPT ![f] = v]
    /\ UNCHANGED <<submitBtn, toast, timers>>
    /\ UNCHANGED <<navVars, revealVars, skillsVars, themeVars>>

\* the form's submit event: handleFormSubmission up to its return or await
SubmitEvent ==
    /\ Len(timers) < MaxTimers
    /\ IF IsIncomplete(fields)
       THEN /\ toast' = ToastShown(MsgIncomplete, "error")
            /\ timers' = Append(timers, [kind |-> "toast", age |-> 0])
            /\ UNCHANGED <<fields, submitBtn>>
       ELSE /\ submitBtn' = LoadingState(TRUE)
            /\ timers' = Append(timers, [kind |-> "submit", age |-> 0])
            /\ UNCHANGED <<fields, toast>>
    /\ UNCHANGED <<navVars, revealVars, skillsVars, themeVars>>

\* the timer of submitForm fires and resolves the promise; the handler
\* resumes after its await: success toast, form.reset(), and in the finally
\* block setLoadingState(false)
SubmitResolved(i) ==
    /\ FiresNext(i)
    /\ timers[i].kind = "submit"
    /\ "resolved" \in SubmitFormOutcomes
    /\ toast' = ToastShown(MsgSent, "success")
    /\ fields' = FormReset(fields)
    /\ submitBtn' = LoadingState(FALSE)
    /\ timers' = Append(WithoutTimer(i), [kind |-> "toast", age |-> 0])
    /\ UNCHANGED <<navVars, revealVars, skillsVars, themeVars>>

\* the handler resumes after its await with a rejection: the catch block
\* shows the error toast, the form is left as it is, and the finally block
\* calls setLoadingState(false)
SubmitRejected(i) ==
    /\ FiresNext(i)
    /\ timers[i].kind = "submit"
    /\ "rejected" \in SubmitFormOutcomes
    /\ toast' = ToastShown(MsgFailed, "error")
    /\ submitBtn' = LoadingState(FALSE)
    /\ timers' = Append(WithoutTimer(i), [kind |-> "toast", age |-> 0])
    /\ UNCHANGED fields
    /\ UNCHANGED <<navVars, revealVars, skillsVars, themeVars>>

\* the submission's timer fires and the handler runs to its end
SubmitSettled(i) == SubmitResolved(i) \/ SubmitRejected(i)

\* the timer of showToast fires: toast.classList.remove('show')
ToastTimeout(i) ==
    /\ FiresNext(i)
    /\ timers[i].kind = "toast"
    /\ toast' = [toast EXCEPT !.show = FALSE]
    /\ timers' = WithoutTimer(i)
    /\ UNCHANGED <<fields, submitBtn>>
    /\ UNCHANGED <<navVars, revealVars, skillsVars, themeVars>>

\* d milliseconds pass; a timer fires when it is due, not later
Tick(d) ==
    /\ timers # << >>
    /\ \A k \in 1..Len(timers) : timers[k].age + d <= TimerDelay(timers[k].kind)
    /\ timers' = [k \in 1..Len(timers) |-> [timers[k] EXCEPT !.age = @ + d]]
    /\ UNCHANGED <<fields, submitBtn, toast>>
    /\ UNCHANGED <<navVars, revealVars, skillsVars, themeVars>>

FormNext ==
    \/ \E f \in FieldNames, v \in FieldValues : Input(f, v)
    \/ SubmitEvent
    \/ \E i \in 1..Len(timers) : SubmitSettled(i)
    \/ \E i \in 1..Len(timers) : ToastTimeout(i)
    \/ \E d \in TickSteps : Tick(d)

---------------------------------------------------------------------------
(* SkillsAnimator (src/script.js:83-124), debounce (src/script.js:298-308) *)
(* and the resize listener (src/script.js:434-443)                         *)

MaxBars == 2

\* `index * 100` of animateSkillBars
BarStaggerMs == 100

\* the wait of the debounced resize listener
DebounceWaitMs == 250

\* window.innerHeight and window.innerWidth
Viewport == [innerHeight |-> 600, innerWidth |-> 800]

\* the geometry of #skills the model considers
SkillsTops == {-200, 0, 200, 400}
SkillsHeights == {400, 800}
SkillsRights == {800, 900}
SkillsScrollDeltas == {-200, 0, 200}

\* data-level values, and the inline width the markup gives a bar: none,
\* or "0%"; the script itself sets no initial width
LevelValues == {"60", "90"}
InlineWidths == {"", "0%"}

\* the argument lists the resize listener is called with (the event)
ResizeArgs == {"resize1", "resize2"}

SkillsTickSteps == {50}

\* a page without #skills
NoSkillsSection ==
    [present |-> FALSE, top |-> 0, bottom |-> 0, left |-> 0, right |-> 0]

SkillsRects ==
    {NoSkillsSection} \cup
    {[present |-> TRUE, top |-> t, bottom |-> t + h, left |-> 0, right |-> r] :
        t \in SkillsTops, h \in SkillsHeights, r \in SkillsRights}

\* isElementInViewport(element)
IsElementInViewport(rect) ==
    /\ rect.top >= 0
    /\ rect.left >= 0
    /\ rect.bottom <= Viewport.innerHeight
    /\ rect.right <= Viewport.innerWidth

\* the conditions under which the scroll listener starts the animation;
\* ShouldAnimateAgain leaves out the test of this.animated
ShouldAnimateAgain(anim, rect) == rect.present /\ IsElementInViewport(rect)

ShouldAnimate(anim, rect) ==
    ~anim /\ rect.present /\ IsElementInViewport(rect)

\* the delay of the timer of the bar at `index` (from 0); BarDelayFlat
\* gives every bar the same delay
BarDelayFlat(index) == BarStaggerMs

BarDelay(index) == index * BarStaggerMs

\* level + '%'
WidthOf(level) == level \o "%"

\* animateSkillBars(): one timer per bar, created in index order
AnimateSkillBars(bs) == [i \in 1..Len(bs) |-> [bar |-> i, age |-> 0]]

\* the function the resize listener debounces; ResizeHandlerAll leaves out
\* the test of the width
ResizeHandlerAll(bs) ==
    [i \in 1..Len(bs) |-> [bs[i] EXCEPT !.width = WidthOf(bs[i].level)]]

ResizeHandler(bs) ==
    [i \in 1..Len(bs) |->
        IF bs[i].width # "0%"
            THEN [bs[i] EXCEPT !.width = WidthOf(bs[i].level)]
            ELSE bs[i]]

\* clearTimeout(timeout): `timeout` is the handle of the timer the last
\* call of the wrapper created; ClearTimeoutNoop cancels nothing
ClearTimeoutNoop(ts) == ts

ClearTimeout(ts) == SelectSeq(ts, LAMBDA t : ~t.latest)

\* `timeout = ...` overwrites the handle of any earlier timer
Unlatest(ts) == [i \in 1..Len(ts) |-> [ts[i] EXCEPT !.latest = FALSE]]

RemoveAt(ts, k) == [j \in 1..(Len(ts) - 1) |-> IF j < k THEN ts[j] ELSE ts[j + 1]]

BarDue(k) == barTimers[k].age >= BarDelay(barTimers[k].bar - 1)

BarFiresNext(k) == BarDue(k) /\ \A j \in 1..(k - 1) : ~BarDue(j)

ResizeDue(k) == resizeTimers[k].age >= DebounceWaitMs

ResizeFiresNext(k) == ResizeDue(k) /\ \A j \in 1..(k - 1) : ~ResizeDue(j)

SkillsInit ==
    /\ skillsRect \in SkillsRects
    /\ skillsScrolled = FALSE
    /\ animated = FALSE
    /\ animateCalls = 0
    /\ bars \in SeqsUpTo([level : LevelValues, width : InlineWidths], MaxBars)
    /\ barTimers = << >>
    /\ resizeTimers = << >>
    /\ lastRunArgs = ""
    /\ burst = "idle"

\* a page without #skills and without skill bars, left alone
SkillsIdle ==
    /\ skillsRect = NoSkillsSection
    /\ skillsScrolled = FALSE
    /\ animated = FALSE
    /\ animateCalls = 0
    /\ bars = << >>
    /\ barTimers = << >>
    /\ resizeTimers = << >>
    /\ lastRunArgs = ""
    /\ burst = "idle"

\* the browser scrolls by delta and dispatches a scroll event: the listener
\* of bindScrollAnimation runs against the new geometry
SkillsScroll(delta) ==
    /\ skillsRect.present => (skillsRect.top - delta) \in SkillsTops
    /\ skillsRect' = IF skillsRect.present
                        THEN [skillsRect EXCEPT !.top = @ - delta, !.bottom = @ - delta]
                        ELSE skillsRect
    /\ skillsScrolled' = TRUE
    /\ IF ShouldAnimate(animated, skillsRect')
          THEN /\ barTimers' = barTimers \o AnimateSkillBars(bars)
               /\ animateCalls' = animateCalls + 1
               /\ animated' = TRUE
          ELSE UNCHANGED <<barTimers, animateCalls, animated>>
    /\ UNCHANGED <<bars, resizeTimers, lastRunArgs, burst>>
    /\ UNCHANGED <<navVars, revealVars, formVars, themeVars>>

\* a timer of animateSkillBars fires: bar.style.width = level + '%'
BarTimerFires(k) ==
    /\ BarFiresNext(k)
    /\ bars' = [bars EXCEPT ![barTimers[k].bar].width = WidthOf(bars[barTimers[k].bar].level)]
    /\ barTimers' = RemoveAt(barTimers, k)
    /\ UNCHANGED <<skillsRect, skillsScrolled, animated, animateCalls,
                   resizeTimers, lastRunArgs, burst>>
    /\ UNCHANGED <<navVars, revealVars, formVars, themeVars>>

\* a resize event: the wrapper returned by debounce is called with args
ResizeEvent(args) ==
    /\ resizeTimers' = Append(Unlatest(ClearTimeout(resizeTimers)),
                              [args |-> args, age |-> 0, latest |-> TRUE])
    /\ burst' = "open"
    /\ UNCHANGED <<skillsRect, skillsScrolled, animated, animateCalls, bars,
                   barTimers, lastRunArgs>>
    /\ UNCHANGED <<navVars, revealVars, formVars, themeVars>>

\* the timer of the wrapper fires: later() clears `timeout` and calls the
\* debounced function with the args of the call that created the timer
ResizeTimerFires(k) ==
    /\ ResizeFiresNext(k)
    /\ resizeTimers' = ClearTimeout(RemoveAt(resizeTimers, k))
    /\ bars' = ResizeHandler(bars)
    /\ lastRunArgs' = resizeTimers[k].args
    /\ burst' = "ran"
    /\ UNCHANGED <<skillsRect, skillsScrolled, animated, animateCalls, barTimers>>
    /\ UNCHANGED <<navVars, revealVars, formVars, themeVars>>

\* d ms pass; no pending timer is overdue
SkillsTick(d) ==
    /\ barTimers # << >> \/ resizeTimers # << >>
    /\ \A k \in 1..Len(barTimers) : barTimers[k].age + d <= BarDelay(barTimers[k].bar - 1)
    /\ \A k \in 1..Len(resizeTimers) : resizeTimers[k].age + d <= DebounceWaitMs
    /\ barTimers' = [k \in 1..Len(barTimers) |-> [barTimers[k] EXCEPT !.age = @ + d]]
    /\ resizeTimers' = [k \in 1..Len(resizeTimers) |-> [resizeTimers[k] EXCEPT !.age = @ + d]]
    /\ UNCHANGED <<skillsRect, skillsScrolled, animated, animateCalls, bars,
                   lastRunArgs, burst>>
    /\ UNCHANGED <<navVars, revealVars, formVars, themeVars>>

SkillsNext ==
    \/ \E delta \in SkillsScrollDeltas : SkillsScroll(delta)
    \/ \E k \in 1..Len(barTimers) : BarTimerFires(k)
    \/ \E args \in ResizeArgs : ResizeEvent(args)
    \/ \E k \in 1..Len(resizeTimers) : ResizeTimerFires(k)
    \/ \E d \in SkillsTickSteps : SkillsTick(d)

---------------------------------------------------------------------------
(* ThemeManager (src/script.js:2-30) *)

\* what localStorage holds under 'theme' when the page is first loaded:
\* nothing, or a theme setTheme stored in an earlier visit
StoredThemes == {<< >>, <<"light">>, <<"dark">>}

\* localStorage.getItem('theme') || 'light'; StoredOrNothing leaves out
\* the default
StoredOrNothing(stored) == IF stored = << >> THEN "" ELSE stored[1]

StoredOrLight(stored) ==
    IF stored = << >> \/ stored[1] = "" THEN "light" ELSE stored[1]

\* the theme toggle() switches to; OtherThemeStuck never leaves 'dark'
OtherThemeStuck(theme) == "dark"

OtherTheme(theme) == IF theme = "light" THEN "dark" ELSE "light"

\* what setTheme(theme) stores; StoresNothing leaves localStorage alone
StoresNothing(stored, theme) == stored

Stores(stored, theme) == <<theme>>

ThemeInit ==
    /\ themePhase = "loading"
    /\ storedTheme \in StoredThemes
    /\ dataTheme = ""
    /\ currentTheme = ""
    /\ themeLoads = 0
    /\ toggled = FALSE

\* a first visit on which the script has not run yet, left alone
ThemeIdle ==
    /\ themePhase = "loading"
    /\ storedTheme = << >>
    /\ dataTheme = ""
    /\ currentTheme = ""
    /\ themeLoads = 0
    /\ toggled = FALSE

\* setTheme(theme)
SetTheme(theme) ==
    /\ dataTheme' = theme
    /\ storedTheme' = Stores(storedTheme, theme)
    /\ currentTheme' = theme

\* DOMContentLoaded: new ThemeManager() reads the stored theme and init()
\* calls setTheme with it
ThemeConstruct ==
    /\ themePhase = "loading"
    /\ themePhase' = "ready"
    /\ SetTheme(StoredOrLight(storedTheme))
    /\ themeLoads' = IF themeLoads = 0 THEN 1 ELSE 2
    /\ UNCHANGED toggled
    /\ UNCHANGED <<navVars, revealVars, formVars, skillsVars>>

\* a click on #theme-toggle: toggle()
ToggleClick ==
    /\ themePhase = "ready"
    /\ SetTheme(OtherTheme(currentTheme))
    /\ toggled' = TRUE
    /\ UNCHANGED <<themePhase, themeLoads>>
    /\ UNCHANGED <<navVars, revealVars, formVars, skillsVars>>

\* the page is loaded again: the document and the script start afresh
\* (timers and form contents are gone), localStorage persists. Followed
\* for a page without sections, reveal candidates and skill bars.
PageReload ==
    /\ themePhase = "ready"
    /\ sectionTops = << >> /\ navLinks = << >> /\ elements = << >> /\ bars = << >>
    /\ ~skillsRect.present
    /\ themePhase' = "loading"
    /\ dataTheme' = ""
    /\ currentTheme' = ""
    /\ toggled' = FALSE
    /\ fields' = [name |-> "", email |-> "", message |-> ""]
    /\ submitBtn' = [btnText |-> "", btnLoading |-> "", disabled |-> FALSE]
    /\ toast' = [show |-> FALSE, message |-> "", icon |-> ""]
    /\ timers' = << >>
    /\ current' = ""
    /\ navRuns' = 0
    /\ revealPhase' = "loading"
    /\ observed' = {}
    /\ lastEntries' = << >>
    /\ skillsScrolled' = FALSE
    /\ animated' = FALSE
    /\ animateCalls' = 0
    /\ resizeTimers' = << >>
    /\ lastRunArgs' = ""
    /\ burst' = "idle"
    /\ UNCHANGED <<storedTheme, themeLoads, sectionTops, navLinks, elements,
                   skillsRect, bars, barTimers>>

ThemeNext == ThemeConstruct \/ ToggleClick \/ PageReload

---------------------------------------------------------------------------
(* Specifications: one per component, the rest of the page left alone *)

MaxPageElements == 2

\* a page with two sections and two navigation links
PageTops == <<50, 200>>

PageLinks == <<[href |-> "#home", active |-> FALSE],
               [href |-> "#contact", active |-> TRUE]>>

NavIdle ==
    /\ sectionTops = << >>
    /\ navLinks = << >>
    /\ current = ""
    /\ navRuns = 0

InitNav == NavInit /\ RevealIdle /\ FormInit /\ SkillsIdle /\ ThemeIdle

SpecNav == InitNav /\ [][NavNext]_vars

InitReveal == NavIdle /\ RevealInit /\ FormInit /\ SkillsIdle /\ ThemeIdle

SpecReveal == InitReveal /\ [][RevealNext]_vars

InitForm == NavIdle /\ RevealIdle /\ FormInit /\ SkillsIdle /\ ThemeIdle

InitSkills == NavIdle /\ RevealIdle /\ FormInit /\ SkillsInit /\ ThemeIdle

SpecSkills == InitSkills /\ [][SkillsNext]_vars

SpecForm == InitForm /\ [][FormNext]_vars

\* the theme together with the contact form
InitTheme == NavIdle /\ RevealIdle /\ FormInit /\ SkillsIdle /\ ThemeInit

SpecTheme == InitTheme /\ [][ThemeNext \/ FormNext]_vars

\* the section tracker together with the reveal animator, on a page with
\* two sections, two navigation links and up to MaxPageElements candidates
InitPage ==
    /\ sectionTops = PageTops
    /\ navLinks = PageLinks
    /\ current = ""
    /\ navRuns = 0
    /\ revealPhase = "loading"
    /\ elements \in {[i \in 1..n |-> FreshElement] : n \in 1..MaxPageElements}
    /\ observed = {}
    /\ lastEntries = << >>
    /\ FormInit /\ SkillsIdle /\ ThemeIdle

SpecPage == InitPage /\ [][NavNext \/ RevealNext]_vars

\* the whole page
Init == NavInit /\ RevealInit /\ FormInit /\ SkillsInit /\ ThemeInit

Next == NavNext \/ RevealNext \/ FormNext \/ SkillsNext \/ ThemeNext

Spec == Init /\ [][Next]_vars

---------------------------------------------------------------------------
(* Properties of NavigationManager *)

navRan == navRuns > 0

ActiveLinks == {i \in 1..Len(navLinks) : navLinks[i].active}

ActiveHrefs == {navLinks[i].href : i \in ActiveLinks}

\* the sections whose top is at or above the threshold line
Qualifying == {i \in 1..Len(sectionTops) : sectionTops[i] <= 150}

LastOf(S) == CHOOSE i \in S : \A j \in S : j <= i

\* C1 as stated: after every run of the scroll listener at most one
\* navigation link is active, for any set of links.
C1_AtMostOneActiveLink == navRan => Cardinality(ActiveLinks) <= 1

\* C1 amended: after every run of the scroll listener all active links carry
\* one and the same href, the one equal to "#" followed by `current`; so at
\* most one link is active whenever the links' hrefs are pairwise distinct.
C1_AtMostOneActiveHref ==
    navRan =>
        /\ Cardinality(ActiveHrefs) <= 1
        /\ ActiveHrefs \subseteq {"#" \o current}

\* two links with different hrefs, after a run: exactly one of them is active
C1_Witness ==
    /\ navRan
    /\ Len(navLinks) = 2
    /\ navLinks[1].href # navLinks[2].href
    /\ Cardinality(ActiveLinks) = 1

\* C2: after a run, `current` is the id of the last section in document
\* order whose top is <= 150 (inclusive), and empty when there is none.
C2_LastMatchWins ==
    navRan =>
        current = IF Qualifying = {} THEN "" ELSE SectionId(LastOf(Qualifying))

\* the example of the claim: tops [200, 100, 50, -10] resolve to the 4th section
C2_Witness ==
    /\ navRan
    /\ sectionTops = <<200, 100, 50, -10>>
    /\ current = SectionId(4)

\* C3 as stated: when `current` is empty or no link targets `current`, no
\* link is active after the run.
C3_NoActiveWhenEmptyOrUnmatched ==
    (navRan /\ (current = "" \/ \A i \in 1..Len(navLinks) : navLinks[i].href # "#" \o current))
        => ActiveLinks = {}

\* C3 amended: when no link's href equals "#" followed by `current` (for an
\* empty `current`: no link's href is exactly "#"), no link is active after
\* the run.
C3_NoActiveWhenUnmatched ==
    (navRan /\ \A i \in 1..Len(navLinks) : navLinks[i].href # "#" \o current)
        => ActiveLinks = {}

\* a run that found no section at or above the line, on a page with links
C3_Witness ==
    /\ navRan
    /\ current = ""
    /\ Qualifying = {}
    /\ Len(navLinks) = 2
    /\ ActiveLinks = {}

\* the links with every active flag cleared
ClearedLinks == [i \in 1..Len(navLinks) |-> [navLinks[i] EXCEPT !.active = FALSE]]

\* C4: a run of the listener on unchanged section tops leaves the active
\* flags as the previous run left them, and what a run leaves does not depend
\* on the flags it found: it is what a run from all-inactive links leaves.
C4_IdempotentStateless ==
    /\ [][(navRan /\ sectionTops' = sectionTops) => navLinks' = navLinks]_vars
    /\ [](navRan => navLinks = NavLinksAfter(ClearedLinks, ResolveCurrent(sectionTops)))

\* the listener has run twice or more and a link is active
C4_Witness ==
    /\ navRuns = 2
    /\ Len(navLinks) = 2
    /\ ActiveLinks # {}
    /\ ActiveLinks # 1..2

---------------------------------------------------------------------------
(* Properties of AnimationObserver *)

revealReady == revealPhase = "ready"

\* the targets an entry of the batch reports as intersecting
IntersectingTargets(entries) ==
    {entries[k].target : k \in {j \in 1..Len(entries) : entries[j].isIntersecting}}

\* C5: an element is hidden while pending and visible once triggered, and a
\* triggered element stays as it is (class, style, visible) through every
\* later callback, whatever the callback reports about it.
C5_RevealOneWay ==
    /\ [](revealReady =>
            \A i \in 1..Len(elements) :
                ComputedOpacity(elements[i]) = IF elements[i].animateIn THEN 1 ELSE 0)
    /\ [][\A i \in 1..Len(elements) :
            elements[i].animateIn =>
                /\ elements'[i] = elements[i]
                /\ ComputedOpacity(elements'[i]) = 1]_vars

\* a triggered element re-reported as not intersecting: it is still visible
C5_Witness ==
    /\ revealReady
    /\ Len(elements) >= 1
    /\ lastEntries = <<[target |-> 1, isIntersecting |-> FALSE]>>
    /\ elements[1].animateIn
    /\ ComputedOpacity(elements[1]) = 1

\* C6: once observeElements has run, a callback removes from the observed set
\* exactly the targets it reports as intersecting and adds none, and no
\* triggered element is observed.
C6_ObservedOnlyShrinks ==
    /\ [][revealReady =>
            /\ observed' \subseteq observed
            /\ observed' = observed \ IntersectingTargets(lastEntries')]_vars
    /\ [](revealReady =>
            \A i \in 1..Len(elements) : elements[i].animateIn => i \notin observed)

\* of three elements two were reported intersecting and left the set
C6_Witness ==
    /\ revealReady
    /\ Len(elements) = 3
    /\ observed = {2}
    /\ elements[1].animateIn /\ elements[3].animateIn

\* C7: after initialization the element at 0-based index i has transition
\* delay i x 0.1 s (i x 100 ms), in every later state.
C7_DelayByIndex ==
    revealReady =>
        \A i \in 1..Len(elements) : elements[i].transition.delay = (i - 1) * 100

\* the last element was reported intersecting before the first one
C7_Witness ==
    /\ revealReady
    /\ Len(elements) = 3
    /\ elements[3].animateIn
    /\ ~elements[1].animateIn
    /\ elements[3].transition.delay = 200
    /\ elements[1].transition.delay = 0

\* C8: a callback changes neither the state nor the observation of an element
\* it does not report as intersecting; so an entry with isIntersecting = false
\* for a pending element leaves it pending and observed.
C8_NotIntersectingNoEffect ==
    [][revealReady =>
        \A i \in 1..Len(elements) :
            i \notin IntersectingTargets(lastEntries') =>
                /\ elements'[i] = elements[i]
                /\ (i \in observed') = (i \in observed)]_vars

\* a pending element was reported as not intersecting: still pending, observed
C8_Witness ==
    /\ revealReady
    /\ Len(elements) >= 2
    /\ lastEntries = <<[target |-> 2, isIntersecting |-> FALSE]>>
    /\ ~elements[2].animateIn
    /\ ComputedOpacity(elements[2]) = 0
    /\ 2 \in observed

---------------------------------------------------------------------------
(* Properties of ContactFormManager *)

AllFilled == fields.name # "" /\ fields.email # "" /\ fields.message # ""

SubmitTimers(ts) == SelectSeq(ts, LAMBDA t : t.kind = "submit")

\* C9: a submit with the three fields non-empty shows the loading state
\* (button disabled) and starts the submission, leaving fields and toast as
\* they are; the submission completes 2000 ms later, and that step shows the
\* success toast, empties the fields and removes the loading state.
C9_SubmitThenSuccess ==
    /\ [][(SubmitEvent /\ AllFilled) =>
            /\ submitBtn'.disabled
            /\ submitBtn'.btnLoading = "inline"
            /\ submitBtn'.btnText = "none"
            /\ timers' = Append(timers, [kind |-> "submit", age |-> 0])
            /\ fields' = fields
            /\ toast' = toast]_vars
    /\ [][\A i \in 1..Len(timers) :
            SubmitResolved(i) =>
                /\ timers[i].age = 2000
                /\ toast'.show
                /\ toast'.icon = "check"
                /\ toast'.message = MsgSent
                /\ fields' = [name |-> "", email |-> "", message |-> ""]
                /\ ~submitBtn'.disabled
                /\ submitBtn'.btnLoading = "none"
                /\ submitBtn'.btnText = "inline"]_vars
    /\ [](\A i \in 1..Len(timers) :
            timers[i].kind = "submit" => timers[i].age <= 2000)

\* a submission has just completed: success toast, empty form, button enabled
C9_Witness ==
    /\ toast = [show |-> TRUE, message |-> MsgSent, icon |-> "check"]
    /\ fields = [name |-> "", email |-> "", message |-> ""]
    /\ submitBtn = [btnText |-> "inline", btnLoading |-> "none", disabled |-> FALSE]
    /\ timers = <<[kind |-> "toast", age |-> 0]>>

\* C10: a submit with name, email or message empty shows the error toast in
\* the same step, and changes neither the button (no loading state), nor the
\* pending submissions, nor the fields.
C10_IncompleteSubmitRejected ==
    [][(SubmitEvent /\ ~AllFilled) =>
        /\ toast' = [show |-> TRUE, message |-> MsgIncomplete, icon |-> "cross"]
        /\ submitBtn' = submitBtn
        /\ SubmitTimers(timers') = SubmitTimers(timers)
        /\ fields' = fields]_vars

\* name and email filled, message empty, submitted: error toast, button
\* untouched, no submission pending, values kept
C10_Witness ==
    /\ toast = [show |-> TRUE, message |-> MsgIncomplete, icon |-> "cross"]
    /\ fields = [name |-> "Ana", email |-> "Ana", message |-> ""]
    /\ submitBtn = [btnText |-> "", btnLoading |-> "", disabled |-> FALSE]
    /\ timers = <<[kind |-> "toast", age |-> 0]>>

\* a submission's timer is due: the handler is about to resume
SubmitDue(i) == FiresNext(i) /\ timers[i].kind = "submit"

\* C11 as stated: a started submission can end in success and can end in
\* failure: when it is due, both the success step and the failure step are
\* possible.
C11_BothOutcomesPossible ==
    \A i \in 1..Len(timers) :
        SubmitDue(i) => (ENABLED SubmitResolved(i)) /\ (ENABLED SubmitRejected(i))

\* C11 amended: a started submission has exactly one outcome, success
\* (success toast, form cleared, loading state removed): the failure step is
\* never possible and the failure toast is never shown.
C11_OnlySuccessOutcome ==
    /\ [](\A i \in 1..Len(timers) :
            SubmitDue(i) => (ENABLED SubmitResolved(i)) /\ ~(ENABLED SubmitRejected(i)))
    /\ [](toast.message # MsgFailed)
    /\ [][\A i \in 1..Len(timers) :
            (SubmitDue(i) /\ timers' = Append(WithoutTimer(i), [kind |-> "toast", age |-> 0])) =>
                /\ toast' = [show |-> TRUE, message |-> MsgSent, icon |-> "check"]
                /\ fields' = [name |-> "", email |-> "", message |-> ""]
                /\ ~submitBtn'.disabled]_vars

\* a submission succeeded a second ago and the user has typed a name again
C11_Witness ==
    /\ toast = [show |-> TRUE, message |-> MsgSent, icon |-> "check"]
    /\ fields = [name |-> "Ana", email |-> "", message |-> ""]
    /\ ~submitBtn.disabled
    /\ timers = <<[kind |-> "toast", age |-> 1000]>>

\* C12 as stated: while a call of showToast is less than 5 s old (its timer
\* is pending and not yet due) the toast is shown, and with no such call
\* the toast is hidden.
C12_ShownForFiveSeconds ==
    /\ (\E k \in 1..Len(timers) : timers[k].kind = "toast" /\ timers[k].age < ToastMs)
          => toast.show
    /\ (\A k \in 1..Len(timers) : timers[k].kind # "toast") => ~toast.show

---------------------------------------------------------------------------
(* Properties of debounce, SkillsAnimator and the resize listener *)

\* C13: the debounced function runs only from the timer of the last call of
\* the wrapper, 250 ms after that call with no call in between, once per
\* burst of calls, with the arguments of that last call, and never before
\* the wrapper has been called.
C13_DebounceTrailingEdge ==
    /\ [][\A k \in 1..Len(resizeTimers) :
            ResizeTimerFires(k) =>
                /\ resizeTimers[k].latest
                /\ resizeTimers[k].age = 250
                /\ burst = "open"
                /\ lastRunArgs' = resizeTimers[k].args
                /\ resizeTimers' = << >>]_vars
    /\ [][(lastRunArgs' # lastRunArgs \/ (burst' = "ran" /\ burst # "ran")) =>
            \E k \in 1..Len(resizeTimers) : ResizeTimerFires(k)]_vars
    /\ [][\A args \in ResizeArgs :
            ResizeEvent(args) =>
                resizeTimers' = <<[args |-> args, age |-> 0, latest |-> TRUE]>>]_vars
    /\ [](burst = "open" <=> resizeTimers # << >>)
    /\ [](burst = "idle" => lastRunArgs = "")

\* a burst of two calls 100 ms apart has ended with one run, with the
\* arguments of the second call, and a new burst has begun
C13_Witness ==
    /\ lastRunArgs = "resize2"
    /\ burst = "open"
    /\ resizeTimers = <<[args |-> "resize1", age |-> 100, latest |-> TRUE]>>

\* some part of #skills lies inside the viewport
IsPartlyVisible(rect) ==
    /\ rect.top < Viewport.innerHeight
    /\ rect.bottom > 0
    /\ rect.left < Viewport.innerWidth
    /\ rect.right > 0

\* the bars whose stagger timer has not fired: all of them before the
\* animation is started, then those with a pending timer
Unrevealed ==
    {b \in 1..Len(bars) :
        ~animated \/ \E k \in 1..Len(barTimers) : barTimers[k].bar = b}

C15_ResizeSkipsUnrevealed ==
    [][\A k \in 1..Len(resizeTimers) :
        ResizeTimerFires(k) =>
            \A b \in Unrevealed : bars'[b].width = bars[b].width]_vars

\* C20: animateSkillBars is called at most once, and once this.animated is
\* true it stays true.
C20_AnimatedOnce ==
    /\ [](animateCalls <= 1)
    /\ [](animated <=> animateCalls = 1)
    /\ [][animated => animated']_vars
    /\ [][animated => Len(barTimers') <= Len(barTimers)]_vars

\* the animation was started and has ended, and the section has left the
\* viewport again
C20_Witness ==
    /\ animated
    /\ animateCalls = 1
    /\ barTimers = << >>
    /\ bars # << >>
    /\ skillsRect.present
    /\ skillsRect.top < 0

---------------------------------------------------------------------------
(* Properties of ThemeManager *)

\* C16: once the ThemeManager is constructed, whatever was stored before,
\* the current theme is "light" or "dark", and every toggle switches it to
\* the other of the two.
C16_ThemeLightOrDark ==
    /\ [](themePhase = "ready" => currentTheme \in {"light", "dark"})
    /\ [][ToggleClick =>
            \/ currentTheme = "light" /\ currentTheme' = "dark"
            \/ currentTheme = "dark" /\ currentTheme' = "light"]_vars

\* on a first visit the theme has been toggled to dark and back
C16_Witness ==
    /\ themePhase = "ready"
    /\ themeLoads = 1
    /\ toggled
    /\ currentTheme = "light"
    /\ storedTheme = <<"light">>

\* C17: once the ThemeManager is constructed, the stored theme, the
\* data-theme attribute and currentTheme are equal; the stored theme
\* survives a reload, and the next ThemeManager starts with it.
C17_StoredAttributeCurrentAgree ==
    /\ [](themePhase = "ready" =>
            storedTheme = <<currentTheme>> /\ dataTheme = currentTheme)
    /\ [][(themePhase = "ready" /\ themePhase' = "loading") =>
            storedTheme' = <<currentTheme>>]_vars
    /\ [][(themePhase = "loading" /\ themePhase' = "ready" /\ storedTheme # << >>) =>
            currentTheme' = storedTheme[1]]_vars

\* the theme was set to dark, the page was loaded again and the second
\* ThemeManager has started with dark
C17_Witness ==
    /\ themePhase = "ready"
    /\ themeLoads = 2
    /\ ~toggled
    /\ currentTheme = "dark"
    /\ dataTheme = "dark"
    /\ storedTheme = <<"dark">>

---------------------------------------------------------------------------
(* Properties of the section tracker and the reveal animator together *)

\* C18: a step that changes the state of the section tracker (a run of the
\* scroll listener) leaves the reveal state and the observed set as they
\* are and moves the sections only by the browser's scroll; a step that
\* changes the reveal state or the observed set (an intersection callback,
\* the initialization) leaves the sections and the navigation links as
\* they are.
C18_SeparateState ==
    /\ [][(navLinks' # navLinks \/ current' # current \/ navRuns' # navRuns
            \/ sectionTops' # sectionTops) =>
            /\ <<revealPhase, elements, observed, lastEntries>>'
                 = <<revealPhase, elements, observed, lastEntries>>
            /\ \E delta \in ScrollDeltas :
                 sectionTops' = [i \in 1..Len(sectionTops) |-> sectionTops[i] - delta]]_vars
    /\ [][(revealPhase' # revealPhase \/ elements' # elements
            \/ observed' # observed \/ lastEntries' # lastEntries) =>
            <<sectionTops, navLinks, current, navRuns>>'
              = <<sectionTops, navLinks, current, navRuns>>]_vars

\* both have acted: the scroll listener has marked the first link and an
\* intersection callback has revealed the second candidate
C18_Witness ==
    /\ navRuns = 2
    /\ navLinks[1].active
    /\ Len(elements) = 2
    /\ elements[2].animateIn
    /\ observed = {1}
    /\ lastEntries # << >>

---------------------------------------------------------------------------
(* Properties of the intersection callback's batches *)

\* the orders in which n entries can be delivered
OrdersUpTo ==
    [n \in 0..MaxBatch |->
        {p \in [1..n -> 1..n] : \A i, j \in 1..n : p[i] = p[j] => i = j}]

Orders(n) == OrdersUpTo[n]

\* the entries delivered one per callback, in the order p
RECURSIVE OnePerCallback(_, _, _, _)
OnePerCallback(st, entries, p, k) ==
    IF k = 0 THEN st
    ELSE HandleEntries(OnePerCallback(st, entries, p, k - 1), <<entries[p[k]]>>, 1)

\* C19: a callback (a step of the initialized observer; lastEntries' is its
\* batch) with a batch of entries leaves the state that the same
\* entries delivered one per callback leave, in any order; the targets of
\* the entries with isIntersecting = true, and only they, are triggered
\* and unobserved; an empty batch changes nothing.
C19_BatchAsOnePerCallback ==
    [][revealPhase = "ready" =>
            LET entries == lastEntries'
                st0 == [els |-> elements, obs |-> observed]
                st1 == [els |-> elements', obs |-> observed']
            IN /\ \A p \in Orders(Len(entries)) :
                    st1 = OnePerCallback(st0, entries, p, Len(entries))
               /\ \A i \in 1..Len(elements) :
                    /\ elements'[i].animateIn =
                         (elements[i].animateIn \/ i \in IntersectingTargets(entries))
                    /\ i \notin IntersectingTargets(entries) => elements'[i] = elements[i]
               /\ observed' = observed \ IntersectingTargets(entries)
               /\ entries = << >> => st1 = st0]_vars

\* one callback has reported both candidates as intersecting, the second
\* before the first
C19_Witness ==
    /\ Len(elements) = 2
    /\ elements[1].animateIn /\ elements[2].animateIn
    /\ observed = {}
    /\ lastEntries = <<[target |-> 2, isIntersecting |-> TRUE],
                       [target |-> 1, isIntersecting |-> TRUE]>>

---------------------------------------------------------------------------
(* Properties of the loading state of the contact form *)

\* the submissions in flight: those whose timer of submitForm is pending
InFlight == Len(SubmitTimers(timers))

\* C21: whenever no submission is in flight the loading state is off: the
\* submit button is enabled and the loading label is not shown; and every
\* step that ends a submission turns the loading state off.
C21_IdleMeansNotLoading ==
    /\ [](InFlight = 0 => ~submitBtn.disabled /\ submitBtn.btnLoading # "inline")
    /\ [][Len(SubmitTimers(timers')) < InFlight =>
            submitBtn' = [btnText |-> "inline", btnLoading |-> "none", disabled |-> FALSE]]_vars

\* two submissions have ended, none is in flight, and the loading state is
\* off
C21_Witness ==
    /\ InFlight = 0
    /\ submitBtn = [btnText |-> "inline", btnLoading |-> "none", disabled |-> FALSE]
    /\ toast.message = MsgSent
    /\ Len(timers) = 2
    /\ \A k \in 1..Len(timers) : timers[k].kind = "toast"

\* C22 as stated: while a submission is in flight the submit button is
\* disabled and the loading label is shown, whatever submit events and
\* completions came before.
C22_LoadingWhileInFlight ==
    InFlight > 0 => submitBtn.disabled /\ submitBtn.btnLoading = "inline"

===========================================================================
